---- MODULE Spec2Model ----
(***************************************************************************)
(* Model of the node editing modal of jsoncrack                            *)
(* (src/features/modals/NodeModal/index.tsx): the pure helpers             *)
(* normalizeNodeData, parseEditedContent, updateJsonWithNodeValue and      *)
(* parseValueByType, and the NodeModal component's handlers.               *)
(*                                                                         *)
(* JavaScript values are records [k, n, s, c]: k is the kind ("undefined", *)
(* "null", "boolean", "number", "string", "array", "object"), n the number *)
(* (or 0/1 for a boolean), s the string (or "NaN" for the number NaN), c   *)
(* the own enumerable properties in JavaScript's property order, each      *)
(* [key, val] (an array's keys are its canonical index strings).           *)
(*                                                                         *)
(* A JSON text is a sequence of tokens [t, n, s]; white space, which       *)
(* JSON.parse skips and JSON.stringify(_, null, 2) only adds, is left out. *)
(***************************************************************************)
EXTENDS Integers, Sequences, FiniteSets

VARIABLES
    json,               \* useJson: the document text (getJson / setJson)
    contents,           \* useFile: the raw contents mirror (setContents)
    nodes,              \* useGraph: the nodes of the rebuilt graph
    selectedNode,       \* useGraph: selectedNode (nodeData in the modal)
    isEditing,          \* useState(false)
    editedContent,      \* useState("")
    normalizedContent,  \* the useMemo value, recomputed when nodeData changes
    toast,              \* what the last handler reported through react-hot-toast
    writes,             \* number of document writes so far (bounds the run)
    call,               \* a helper call under check: its name and arguments
    ret                 \* the outcome of that call

vars == <<json, contents, nodes, selectedNode, isEditing, editedContent,
          normalizedContent, toast, writes, call, ret>>

\* the number of document writes a run explores
MaxWrites == 2

-----------------------------------------------------------------------------
(* JavaScript values *)

Val(k, n, s, c) == [k |-> k, n |-> n, s |-> s, c |-> c]
Undefined == Val("undefined", 0, "", <<>>)
Null      == Val("null", 0, "", <<>>)
Bool(b)   == Val("boolean", IF b THEN 1 ELSE 0, "", <<>>)
Num(n)    == Val("number", n, "", <<>>)
NaN       == Val("number", 0, "NaN", <<>>)
Str(s)    == Val("string", 0, s, <<>>)
Prop(key, val) == [key |-> key, val |-> val]
Obj(props) == Val("object", 0, "", props)

Digits == <<"0", "1", "2", "3", "4", "5", "6", "7", "8", "9">>

IsDigit(ch) == \E i \in 1..Len(Digits) : Digits[i] = ch
DigitVal(ch) == (CHOOSE i \in 1..Len(Digits) : Digits[i] = ch) - 1

RECURSIVE NumToString(_)
\* Number.prototype.toString of a non-negative integer
NumToString(n) ==
    IF n < 10 THEN Digits[n + 1]
    ELSE NumToString(n \div 10) \o Digits[(n % 10) + 1]

RECURSIVE DigitsValue(_)
DigitsValue(s) ==
    IF Len(s) = 0 THEN 0
    ELSE 10 * DigitsValue(SubSeq(s, 1, Len(s) - 1)) + DigitVal(SubSeq(s, Len(s), Len(s)))

AllDigits(s) == Len(s) > 0 /\ \A i \in 1..Len(s) : IsDigit(SubSeq(s, i, i))

\* a canonical array index: "0", or digits with no leading zero
IsIndexKey(s) == AllDigits(s) /\ (Len(s) = 1 \/ SubSeq(s, 1, 1) /= "0")

Arr(elems) == Val("array", 0, "", [i \in 1..Len(elems) |-> Prop(NumToString(i - 1), elems[i])])

IsNaN(v) == v.k = "number" /\ v.s = "NaN"
\* typeof v === "object" (null included, as in JavaScript)
TypeofObject(v) == v.k \in {"object", "array", "null"}
\* ToBoolean(v)
Truthy(v) ==
    CASE v.k \in {"undefined", "null"} -> FALSE
      [] v.k = "boolean" -> v.n = 1
      [] v.k = "number"  -> ~IsNaN(v) /\ v.n /= 0
      [] v.k = "string"  -> v.s /= ""
      [] OTHER -> TRUE

HasKey(props, key) == \E i \in 1..Len(props) : props[i].key = key
KeyIndex(props, key) == CHOOSE i \in 1..Len(props) : props[i].key = key
Lookup(props, key) == IF HasKey(props, key) THEN props[KeyIndex(props, key)].val ELSE Undefined

\* the position a new own property takes: integer keys ascending first, then
\* the other keys in insertion order (OrdinaryOwnPropertyKeys)
InsertAt(props, key) ==
    IF IsIndexKey(key)
    THEN 1 + Cardinality({i \in 1..Len(props) :
                 IsIndexKey(props[i].key) /\ DigitsValue(props[i].key) < DigitsValue(key)})
    ELSE Len(props) + 1

\* obj[key] = val on an ordinary object's property list
PropsSet(props, key, val) ==
    IF HasKey(props, key)
    THEN [props EXCEPT ![KeyIndex(props, key)].val = val]
    ELSE LET at == InsertAt(props, key)
         IN  SubSeq(props, 1, at - 1) \o <<Prop(key, val)>> \o SubSeq(props, at, Len(props))

\* arr[key] = val: an index extends the array, leaving holes; any other key
\* becomes a property that JSON.stringify never writes
ElemsSet(props, key, val) ==
    IF ~IsIndexKey(key) THEN props
    ELSE LET i == DigitsValue(key) + 1
         IN  [j \in 1..(IF i > Len(props) THEN i ELSE Len(props)) |->
                 IF j = i THEN Prop(key, val)
                 ELSE IF j <= Len(props) THEN props[j]
                 ELSE Prop(NumToString(j - 1), Undefined)]

\* the characters of a string as its index properties
StringProps(s) == [i \in 1..Len(s) |-> Prop(NumToString(i - 1), Str(SubSeq(s, i, i)))]

\* the own enumerable string-keyed properties of ToObject(v): Object.entries(v)
\* and the spread {...v}; holes of an array are no properties
OwnProps(v) ==
    CASE v.k = "object" -> v.c
      [] v.k = "array"  -> SelectSeq(v.c, LAMBDA p : p.val.k /= "undefined")
      [] v.k = "string" -> StringProps(v.s)
      [] OTHER -> <<>>

RECURSIVE JoinStrings(_, _)
JoinStrings(strs, sep) ==
    IF Len(strs) = 0 THEN ""
    ELSE IF Len(strs) = 1 THEN strs[1]
    ELSE strs[1] \o sep \o JoinStrings(Tail(strs), sep)

RECURSIVE ToStr(_)
\* String(v), also what a template literal `${v}` produces
ToStr(v) ==
    CASE v.k = "undefined" -> "undefined"
      [] v.k = "null"      -> "null"
      [] v.k = "boolean"   -> IF v.n = 1 THEN "true" ELSE "false"
      [] v.k = "number"    -> IF IsNaN(v) THEN "NaN" ELSE NumToString(v.n)
      [] v.k = "string"    -> v.s
      [] v.k = "array"     ->
            JoinStrings([i \in 1..Len(v.c) |->
                            IF v.c[i].val.k \in {"undefined", "null"} THEN ""
                            ELSE ToStr(v.c[i].val)], ",")
      [] OTHER             -> "[object Object]"

\* Number(s) of a string: the model's strings hold no white space, sign,
\* fraction or exponent, so a string is numeric iff it is empty or all digits
StringToNumber(s) ==
    IF s = "" THEN Num(0)
    ELSE IF AllDigits(s) THEN Num(DigitsValue(s))
    ELSE NaN

\* Number(v)
ToNumber(v) ==
    CASE v.k = "undefined" -> NaN
      [] v.k = "null"      -> Num(0)
      [] v.k = "boolean"   -> Num(v.n)
      [] v.k = "number"    -> v
      [] OTHER             -> StringToNumber(ToStr(v))

-----------------------------------------------------------------------------
(* JSON texts: JSON.stringify and JSON.parse *)

Tok(t, n, s) == [t |-> t, n |-> n, s |-> s]
Punct(t) == Tok(t, 0, "")

RECURSIVE JSONstringify(_), StringifyProps(_, _, _)
\* the text between the brackets of an array (isArray) or an object: an
\* undefined element is written null, an undefined member is left out
StringifyProps(props, isArray, first) ==
    IF Len(props) = 0 THEN <<>>
    ELSE LET p == props[1]
             skip == ~isArray /\ p.val.k = "undefined"
             item == IF isArray
                     THEN (IF p.val.k = "undefined" THEN <<Punct("null")>> ELSE JSONstringify(p.val))
                     ELSE <<Tok("string", 0, p.key), Punct(":")>> \o JSONstringify(p.val)
         IN  IF skip THEN StringifyProps(Tail(props), isArray, first)
             ELSE (IF first THEN <<>> ELSE <<Punct(",")>>) \o item
                  \o StringifyProps(Tail(props), isArray, FALSE)

\* JSON.stringify(v, null, 2) of a defined value
JSONstringify(v) ==
    CASE v.k = "null"    -> <<Punct("null")>>
      [] v.k = "boolean" -> <<Punct(IF v.n = 1 THEN "true" ELSE "false")>>
      [] v.k = "number"  -> IF IsNaN(v) THEN <<Punct("null")>> ELSE <<Tok("number", v.n, "")>>
      [] v.k = "string"  -> <<Tok("string", 0, v.s)>>
      [] v.k = "array"   -> <<Punct("[")>> \o StringifyProps(v.c, TRUE, TRUE) \o <<Punct("]")>>
      [] v.k = "object"  -> <<Punct("{")>> \o StringifyProps(v.c, FALSE, TRUE) \o <<Punct("}")>>

ParseFail == [ok |-> FALSE, v |-> Undefined, next |-> 0]
ParseOk(v, next) == [ok |-> TRUE, v |-> v, next |-> next]
TokAt(toks, i, t) == i <= Len(toks) /\ toks[i].t = t

RECURSIVE ParseValue(_, _), ParseElements(_, _, _), ParseMembers(_, _, _)
ParseValue(toks, i) ==
    IF i > Len(toks) THEN ParseFail
    ELSE LET t == toks[i]
         IN  CASE t.t = "null"   -> ParseOk(Null, i + 1)
               [] t.t = "true"   -> ParseOk(Bool(TRUE), i + 1)
               [] t.t = "false"  -> ParseOk(Bool(FALSE), i + 1)
               [] t.t = "number" -> ParseOk(Num(t.n), i + 1)
               [] t.t = "string" -> ParseOk(Str(t.s), i + 1)
               [] t.t = "["      -> IF TokAt(toks, i + 1, "]") THEN ParseOk(Arr(<<>>), i + 2)
                                    ELSE ParseElements(toks, i + 1, <<>>)
               [] t.t = "{"      -> IF TokAt(toks, i + 1, "}") THEN ParseOk(Obj(<<>>), i + 2)
                                    ELSE ParseMembers(toks, i + 1, <<>>)
               [] OTHER          -> ParseFail

ParseElements(toks, i, acc) ==
    LET r == ParseValue(toks, i)
    IN  IF ~r.ok THEN ParseFail
        ELSE IF TokAt(toks, r.next, ",") THEN ParseElements(toks, r.next + 1, Append(acc, r.v))
        ELSE IF TokAt(toks, r.next, "]") THEN ParseOk(Arr(Append(acc, r.v)), r.next + 1)
        ELSE ParseFail

\* a repeated key keeps its first place and takes its last value
ParseMembers(toks, i, props) ==
    IF ~(TokAt(toks, i, "string") /\ TokAt(toks, i + 1, ":")) THEN ParseFail
    ELSE LET r == ParseValue(toks, i + 2)
         IN  IF ~r.ok THEN ParseFail
             ELSE LET ps == PropsSet(props, toks[i].s, r.v)
                  IN  IF TokAt(toks, r.next, ",") THEN ParseMembers(toks, r.next + 1, ps)
                      ELSE IF TokAt(toks, r.next, "}") THEN ParseOk(Obj(ps), r.next + 1)
                      ELSE ParseFail

\* JSON.parse(text): [ok, v]; ~ok is the SyntaxError
JSONparse(toks) ==
    LET r == ParseValue(toks, 1)
    IN  IF r.ok /\ r.next = Len(toks) + 1 THEN [ok |-> TRUE, v |-> r.v]
        ELSE [ok |-> FALSE, v |-> Undefined]

\* the tokens of a raw text made of the characters of s. The model's strings
\* hold no JSON punctuation, quote or white space, so s is one word: a JSON
\* literal, a number, or a word no JSON text may hold
Lex(s) ==
    IF s = "" THEN <<>>
    ELSE IF s \in {"true", "false", "null"} THEN <<Punct(s)>>
    ELSE IF IsIndexKey(s) THEN <<Tok("number", DigitsValue(s), "")>>
    ELSE <<Tok("bad", 0, s)>>

-----------------------------------------------------------------------------
(* Rows and paths (types/graph: NodeRow, NodeData["path"]) *)

\* a NodeRow; hasKey is FALSE for a row whose key is null or undefined
Row(key, hasKey, value, type) == [key |-> key, hasKey |-> hasKey, value |-> value, type |-> type]
\* the test (row.key) of the code: a null, undefined or empty key is falsy
KeyTruthy(row) == row.hasKey /\ row.key /= ""

\* a path segment: a string key or an integer index
KeySeg(s) == [num |-> FALSE, s |-> s, n |-> 0]
IdxSeg(n) == [num |-> TRUE, s |-> "", n |-> n]
\* ToPropertyKey(seg)
PropKey(seg) == IF seg.num THEN NumToString(seg.n) ELSE seg.s

\* v[key] of a value that is neither null nor undefined. The model's keys
\* never name an inherited property ("length", "constructor", ...)
GetProp(v, key) ==
    CASE v.k = "object" -> Lookup(v.c, key)
      [] v.k = "array"  -> Lookup(v.c, key)
      [] v.k = "string" -> Lookup(StringProps(v.s), key)
      [] OTHER -> Undefined

Thrown(error) == [ok |-> FALSE, v |-> Undefined, error |-> error]
Returned(v) == [ok |-> TRUE, v |-> v, error |-> ""]

\* v[key] = val, in place: a TypeError on null and undefined, and (module
\* code is strict) on a primitive
SetProp(v, key, val) ==
    CASE v.k = "object" -> Returned(Obj(PropsSet(v.c, key, val)))
      [] v.k = "array"  -> Returned(Val("array", 0, "", ElemsSet(v.c, key, val)))
      [] OTHER -> Thrown("TypeError")

-----------------------------------------------------------------------------
(* The pure helpers of index.tsx *)

\* the boolean case without the comparison against the literal true
parseValueByTypeStringsOnly(value, type) ==
    IF value.k = "null" \/ value = Str("null") THEN Null
    ELSE IF type = "boolean" THEN Bool(value = Str("true") \/ value = Str("1"))
    ELSE IF type = "number" THEN ToNumber(value)
    ELSE value

parseValueByType(value, type) ==
    IF value.k = "null" \/ value = Str("null") THEN Null
    ELSE IF type = "boolean"
         THEN Bool(value = Bool(TRUE) \/ value = Str("true") \/ value = Str("1"))
    ELSE IF type = "number" THEN ToNumber(value)
    ELSE value

RECURSIVE NormalizeProps(_, _)
\* the forEach of normalizeNodeData: obj[row.key] = row.value for the keyed
\* rows that are not containers
NormalizeProps(nodeRows, props) ==
    IF Len(nodeRows) = 0 THEN props
    ELSE LET row == nodeRows[1]
         IN  NormalizeProps(Tail(nodeRows),
                 IF row.type /= "array" /\ row.type /= "object" /\ KeyTruthy(row)
                 THEN PropsSet(props, row.key, row.value)
                 ELSE props)

normalizeNodeData(nodeRows) ==
    IF Len(nodeRows) = 0 THEN <<Punct("{"), Punct("}")>>
    ELSE IF Len(nodeRows) = 1 /\ ~KeyTruthy(nodeRows[1]) THEN Lex(ToStr(nodeRows[1].value))
    ELSE JSONstringify(Obj(NormalizeProps(nodeRows, <<>>)))

\* originalRows.find(row => row.key === key): the first such row, if any
FindRow(originalRows, key) ==
    LET hits == {i \in 1..Len(originalRows) :
                    originalRows[i].hasKey /\ originalRows[i].key = key}
    IN  IF hits = {} THEN [found |-> FALSE, type |-> ""]
        ELSE [found |-> TRUE,
              type |-> originalRows[CHOOSE i \in hits : \A j \in hits : i <= j].type]

\* the declared type of the original row winning over the runtime shape
inferredTypeDeclaredFirst(originalRows, key, value) ==
    LET original == FindRow(originalRows, key)
    IN  IF original.found /\ original.type /= "" THEN original.type ELSE "string"

\* the type tag parseEditedContent gives a key of the parsed value
inferredType(originalRows, key, value) ==
    LET original == FindRow(originalRows, key)
    IN  IF value.k = "array" THEN "array"
        ELSE IF value.k /= "null" /\ TypeofObject(value) THEN "object"
        ELSE IF value.k = "boolean" THEN "boolean"
        ELSE IF value.k = "number" THEN "number"
        ELSE IF original.found /\ original.type /= "" THEN original.type
        ELSE "string"

RowsThrown(message) == [ok |-> FALSE, rows |-> <<>>, error |-> message]
RowsReturned(rows) == [ok |-> TRUE, rows |-> rows, error |-> ""]

parseEditedContent(content, originalRows) ==
    LET parsed == JSONparse(content)
    IN  IF ~parsed.ok THEN RowsThrown("Invalid JSON format")
        ELSE IF Len(originalRows) = 1 /\ ~KeyTruthy(originalRows[1])
        THEN RowsReturned(<<[originalRows[1] EXCEPT !.value = parsed.v]>>)
        \* Object.entries(null) is a TypeError, caught and thrown again
        ELSE IF parsed.v.k = "null" THEN RowsThrown("Invalid JSON format")
        ELSE LET entries == OwnProps(parsed.v)
             IN  RowsReturned([i \in 1..Len(entries) |->
                     Row(entries[i].key, TRUE, entries[i].val,
                         inferredType(originalRows, entries[i].key, entries[i].val))])

RECURSIVE MergeRows(_, _)
\* newValue.forEach(row => { if (row.key) obj[row.key] = parseValueByType(...) })
MergeRows(props, newValue) ==
    IF Len(newValue) = 0 THEN props
    ELSE LET row == newValue[1]
         IN  MergeRows(IF KeyTruthy(row)
                       THEN PropsSet(props, row.key, parseValueByType(row.value, row.type))
                       ELSE props,
                       Tail(newValue))

\* the merge as a destructive replace: nothing of the existing value is copied
SpreadExistingDiscarded(existing) == <<>>

\* existing && typeof existing === "object" ? { ...existing } : {}
SpreadExisting(existing) ==
    IF Truthy(existing) /\ TypeofObject(existing) THEN OwnProps(existing) ELSE <<>>

SingleValue(newValue) == Len(newValue) = 1 /\ ~KeyTruthy(newValue[1])

\* the write at the last segment: current[lastKey] = ...
UpdateTarget(current, lastKey, newValue) ==
    IF current.k \in {"null", "undefined"} THEN Thrown("TypeError")
    ELSE IF SingleValue(newValue)
    THEN SetProp(current, lastKey, parseValueByType(newValue[1].value, newValue[1].type))
    ELSE LET existing == GetProp(current, lastKey)
         IN  SetProp(current, lastKey, Obj(MergeRows(SpreadExisting(existing), newValue)))

RECURSIVE UpdateAt(_, _, _)
\* the navigation loop current = current[path[i]] followed by the write, as
\* the value current becomes: a write below a member changes that member in
\* place, and reading a property of null or undefined is a TypeError
UpdateAt(current, path, newValue) ==
    IF Len(path) = 1 THEN UpdateTarget(current, PropKey(path[1]), newValue)
    ELSE IF current.k \in {"null", "undefined"} THEN Thrown("TypeError")
    ELSE LET r == UpdateAt(GetProp(current, PropKey(path[1])), Tail(path), newValue)
         IN  IF ~r.ok THEN r ELSE SetProp(current, PropKey(path[1]), r.v)

TextThrown(error) == [ok |-> FALSE, text |-> <<>>, error |-> error]
TextReturned(text) == [ok |-> TRUE, text |-> text, error |-> ""]

updateJsonWithNodeValue(jsonText, path, newValue) ==
    LET parsed == JSONparse(jsonText)
    IN  IF ~parsed.ok THEN TextThrown("SyntaxError")
        ELSE IF Len(path) = 0
        THEN IF SingleValue(newValue) THEN TextReturned(JSONstringify(newValue[1].value))
             ELSE TextReturned(JSONstringify(
                      Obj(MergeRows(SpreadExisting(parsed.v), newValue))))
        ELSE LET r == UpdateAt(parsed.v, path, newValue)
             IN  IF r.ok THEN TextReturned(JSONstringify(r.v)) ELSE TextThrown(r.error)

-----------------------------------------------------------------------------
(* The graph store (useGraph) and the document stores (useJson, useFile) *)

\* the type tag of a value's runtime shape
TypeOf(v) == v.k

\* the rows of a node: one keyed row per own key of a container, one row
\* with no key for a scalar
RowsOf(v) ==
    IF v.k \in {"object", "array"}
    THEN [i \in 1..Len(v.c) |-> Row(v.c[i].key, TRUE, v.c[i].val, TypeOf(v.c[i].val))]
    ELSE <<Row("", FALSE, v, TypeOf(v))>>

Node(path, text) == [sel |-> TRUE, path |-> path, text |-> text]
\* selectedNode === null
NoNode == [sel |-> FALSE, path |-> <<>>, text |-> <<>>]

SegOf(v, i) == IF v.k = "array" THEN IdxSeg(i - 1) ELSE KeySeg(v.c[i].key)

RECURSIVE NodesOf(_, _)
\* a node for the value at path and for every value below it
NodesOf(v, path) ==
    {Node(path, RowsOf(v))} \cup
    (IF v.k \in {"object", "array"}
     THEN UNION {NodesOf(v.c[i].val, Append(path, SegOf(v, i))) : i \in 1..Len(v.c)}
     ELSE {})

\* setGraph(json): the nodes rebuilt from the document text
setGraph(jsonText) ==
    LET parsed == JSONparse(jsonText)
    IN  IF parsed.ok THEN NodesOf(parsed.v, <<>>) ELSE {}

\* JSON.stringify(n.path ?? [])
PathText(path) ==
    JSONstringify(Arr([i \in 1..Len(path) |->
        IF path[i].num THEN Num(path[i].n) ELSE Str(path[i].s)]))

-----------------------------------------------------------------------------
(* The NodeModal component *)

RECURSIVE Resolve(_, _)
\* the loop current = current?.[path[i]] of normalizedContent
Resolve(current, path) ==
    IF Len(path) = 0 THEN current
    ELSE Resolve(IF current.k \in {"null", "undefined"} THEN Undefined
                 ELSE GetProp(current, PropKey(path[1])),
                 Tail(path))

\* the body of the useMemo: the value at the node's path in the document if
\* there is one, else the text of the node's rows
ComputeNormalizedContent(nodeData, jsonText) ==
    IF ~nodeData.sel THEN <<Punct("{"), Punct("}")>>
    ELSE LET parsed == JSONparse(jsonText)
             current == Resolve(parsed.v, nodeData.path)
         IN  IF parsed.ok /\ current.k /= "undefined" THEN JSONstringify(current)
             ELSE normalizeNodeData(nodeData.text)

Idle == [op |-> "", text |-> <<>>, path |-> <<>>, rows |-> <<>>, via |-> ""]
NotReturned == [done |-> FALSE, ok |-> FALSE, text |-> <<>>, rows |-> <<>>]

\* a click on a node of the graph: setSelectedNode(n); nodeData changes, so
\* the memo is computed again
setSelectedNode(n) ==
    /\ selectedNode' = n
    /\ normalizedContent' = ComputeNormalizedContent(n, json)
    /\ UNCHANGED <<json, contents, nodes, isEditing, editedContent, toast, writes, call, ret>>

handleEditClick ==
    /\ ~isEditing
    /\ editedContent' = normalizedContent
    /\ isEditing' = TRUE
    /\ UNCHANGED <<json, contents, nodes, selectedNode, normalizedContent, toast, writes,
                   call, ret>>

\* the Textarea's onChange
setEditedContent(text) ==
    /\ isEditing
    /\ editedContent' = text
    /\ UNCHANGED <<json, contents, nodes, selectedNode, isEditing, normalizedContent, toast,
                   writes, call, ret>>

handleCancel ==
    /\ isEditing
    /\ isEditing' = FALSE
    /\ editedContent' = <<>>
    /\ UNCHANGED <<json, contents, nodes, selectedNode, normalizedContent, toast, writes,
                   call, ret>>

\* what handleSave computes before it touches a store
SaveRows == parseEditedContent(editedContent, selectedNode.text)
SaveUpdate == updateJsonWithNodeValue(json, selectedNode.path, SaveRows.rows)
SaveSucceeds == SaveRows.ok /\ SaveUpdate.ok

\* allNodes.find(n => JSON.stringify(n.path ?? []) === targetPath)
Matched(allNodes, nodeData) ==
    {n \in allNodes : PathText(n.path) = PathText(nodeData.path)}

\* the save without the re-selection of the edited node
handleSaveCommitNoReselect(updatedJson) ==
    /\ json' = updatedJson
    /\ contents' = updatedJson
    /\ nodes' = setGraph(updatedJson)
    /\ toast' = "Node value updated!"
    /\ isEditing' = FALSE
    /\ writes' = writes + 1
    /\ UNCHANGED <<selectedNode, normalizedContent, editedContent>>

handleSaveCommit(updatedJson) ==
    LET allNodes == setGraph(updatedJson)
        matched == Matched(allNodes, selectedNode)
    IN  /\ json' = updatedJson
        /\ contents' = updatedJson
        /\ nodes' = allNodes
        /\ IF matched /= {}
           THEN \E n \in matched :
                  /\ selectedNode' = n
                  /\ normalizedContent' = ComputeNormalizedContent(n, updatedJson)
           ELSE UNCHANGED <<selectedNode, normalizedContent>>
        /\ toast' = "Node value updated!"
        /\ isEditing' = FALSE
        /\ writes' = writes + 1
        /\ UNCHANGED editedContent

\* the catch leaving edit mode, as if setIsEditing(false) ran on every path
handleSaveCatchLeavingEditMode(message) ==
    /\ toast' = message
    /\ isEditing' = FALSE
    /\ UNCHANGED <<json, contents, nodes, selectedNode, editedContent, normalizedContent,
                   writes>>

handleSaveCatch(message) ==
    /\ toast' = message
    /\ UNCHANGED <<json, contents, nodes, selectedNode, isEditing, editedContent,
                   normalizedContent, writes>>

handleSave ==
    /\ isEditing
    /\ IF ~SaveRows.ok THEN handleSaveCatch(SaveRows.error)
       ELSE IF ~SaveUpdate.ok THEN handleSaveCatch(SaveUpdate.error)
       ELSE writes < MaxWrites /\ handleSaveCommit(SaveUpdate.text)
    /\ UNCHANGED <<call, ret>>

\* another writer of the document store (the text editor): setJson(text),
\* which rebuilds the graph and leaves the selection alone
setJson(text) ==
    /\ writes < MaxWrites
    /\ json' = text
    /\ contents' = text
    /\ nodes' = setGraph(text)
    /\ writes' = writes + 1
    /\ UNCHANGED <<selectedNode, isEditing, editedContent, normalizedContent, toast, call, ret>>

-----------------------------------------------------------------------------
(* The modal as a state machine *)

\* {"a":1,"b":2}
DocAB == Obj(<<Prop("a", Num(1)), Prop("b", Num(2))>>)
\* {"a":{"x":1}}
DocAX == Obj(<<Prop("a", Obj(<<Prop("x", Num(1))>>))>>)
\* {"a":[1]}
DocArr == Obj(<<Prop("a", Arr(<<Num(1)>>))>>)

\* the documents the application starts with
InitDocs == {JSONstringify(DocAB), JSONstringify(DocArr)}
\* the documents another writer stores
ExternalDocs == {JSONstringify(DocAB), JSONstringify(DocAX)}
\* the text {not json
NotJson == <<Punct("{"), Tok("bad", 0, "not"), Tok("bad", 0, "json")>>
\* what the user types into the Textarea
EditTexts ==
    {NotJson,
     JSONstringify(Num(5)),
     JSONstringify(Obj(<<Prop("x", Num(2))>>))}

Init ==
    /\ json \in InitDocs
    /\ contents = json
    /\ nodes = setGraph(json)
    /\ selectedNode = NoNode
    /\ isEditing = FALSE
    /\ editedContent = <<>>
    /\ normalizedContent = ComputeNormalizedContent(NoNode, json)
    /\ toast = ""
    /\ writes = 0
    /\ call = Idle
    /\ ret = NotReturned

\* selections, edits and saves
NextModal ==
    \/ \E n \in nodes : setSelectedNode(n)
    \/ handleEditClick
    \/ \E text \in EditTexts : setEditedContent(text)
    \/ handleSave
    \/ handleCancel

Next ==
    \/ NextModal
    \/ \E text \in ExternalDocs : setJson(text)

Spec == Init /\ [][Next]_vars
SpecModal == Init /\ [][NextModal]_vars

-----------------------------------------------------------------------------
(* The helpers called on their own *)

\* the longest path a call is given
MaxPathLen == 2

Types == {"string", "number", "boolean", "null", "object", "array"}
ScalarTypes == {"string", "number", "boolean", "null"}

Unkeyed(value, type) == Row("", FALSE, value, type)
Keyed(key, value, type) == Row(key, TRUE, value, type)

ObjA1 == Obj(<<Prop("a", Num(1))>>)

\* documents: objects, arrays, scalars and null, at the root and below it
PatchDocs ==
    {Obj(<<Prop("a", Obj(<<Prop("a", Num(1)), Prop("b", Str("s"))>>)),
           Prop("b", Arr(<<ObjA1>>))>>),
     Obj(<<Prop("a", Null), Prop("b", Str("Al"))>>),
     Arr(<<Arr(<<Num(1)>>), Arr(<<>>)>>),
     Arr(<<Num(1)>>),
     Num(5)}

Segs == {KeySeg("a"), KeySeg("b"), IdxSeg(0), IdxSeg(1)}

RECURSIVE PathsOfLen(_)
PathsOfLen(n) ==
    IF n = 0 THEN {<<>>}
    ELSE {Append(path, seg) : path \in PathsOfLen(n - 1), seg \in Segs}

Paths == UNION {PathsOfLen(n) : n \in 0..MaxPathLen}

\* a row's value and declared type: matching pairs, and pairs whose value is
\* not of the declared type
RowValues == {Num(5), Str("Al"), Str("null"), Str("1"), Bool(TRUE), Null, ObjA1}
TypedValues ==
    {<<Num(5), "number">>, <<Str("Al"), "string">>, <<Str("Al"), "number">>,
     <<Str("null"), "string">>, <<Bool(TRUE), "boolean">>, <<ObjA1, "object">>,
     <<Arr(<<Num(1)>>), "array">>}
PairValues == {<<Num(5), "number">>, <<Str("Al"), "number">>, <<Null, "null">>}

\* the new rows of a call: none, one row with no key (or an empty key), one
\* keyed row, two keyed rows
NewRowSets ==
    {<<>>}
    \cup {<<Unkeyed(v, t)>> : v \in RowValues, t \in {"string", "number", "boolean", "object"}}
    \cup {<<Keyed("", Num(5), "number")>>}
    \cup {<<Keyed(key, tv[1], tv[2])>> : key \in {"a", "c"}, tv \in TypedValues}
    \cup {<<Keyed("a", x[1], x[2]), Keyed("c", y[1], y[2])>> : x \in PairValues, y \in PairValues}
    \cup {<<Keyed("", Num(5), "number"), Keyed("c", Str("Al"), "string")>>,
          <<Keyed("a", Num(5), "number"), Keyed("a", Str("Al"), "string")>>}

UpdateCalls ==
    {[op |-> "updateJsonWithNodeValue", text |-> text, path |-> path, rows |-> rows,
      via |-> ""] :
        text \in {JSONstringify(d) : d \in PatchDocs} \cup {NotJson},
        path \in Paths, rows \in NewRowSets}

\* the rows of a node whose fields are scalars, each typed by its shape
ScalarValues == {Num(5), Str("Al"), Str("5"), Bool(TRUE), Null}
PairScalars == {Num(5), Str("Al"), Null}
ScalarRowSets ==
    {<<>>}
    \cup {<<Unkeyed(v, TypeOf(v))>> : v \in ScalarValues}
    \cup {<<Keyed("a", v, TypeOf(v))>> : v \in ScalarValues}
    \cup {<<Keyed("a", v, TypeOf(v)), Keyed("b", w, TypeOf(w))>> :
              v \in PairScalars, w \in PairScalars}
    \cup {<<Keyed("b", w, TypeOf(w)), Keyed("a", v, TypeOf(v))>> :
              v \in PairScalars, w \in PairScalars}

NormalizeCalls ==
    {[op |-> "normalizeNodeData", text |-> <<>>, path |-> <<>>, rows |-> rows, via |-> ""] :
        rows \in ScalarRowSets}

\* edited values of every runtime shape
EditedValues ==
    {Arr(<<Num(1)>>), ObjA1, Bool(FALSE), Num(7), Str("Al"), Null}
EditedContents ==
    {JSONstringify(Obj(<<Prop("a", v)>>)) : v \in EditedValues}
    \cup {JSONstringify(Obj(<<Prop("b", v), Prop("a", w)>>)) :
              v \in {Str("x"), Null}, w \in {Num(7), Str("Al")}}
    \cup {JSONstringify(v) : v \in {Num(5), Str("Al"), Null, Arr(<<Str("x")>>)}}
    \cup {NotJson}

\* the rows of the edited node, keys unique, in either order
OriginalRowSets ==
    {<<>>}
    \cup {<<Unkeyed(Num(1), "number")>>}
    \cup {<<Keyed("a", Str("v"), t)>> : t \in Types}
    \cup {<<Keyed("a", Str("v"), t), Keyed("b", Str("w"), u)>> :
              t \in {"string", "number", "null"}, u \in {"string", "boolean"}}
    \cup {<<Keyed("b", Str("w"), u), Keyed("a", Str("v"), t)>> :
              t \in {"string", "number", "null"}, u \in {"string", "boolean"}}
    \cup {<<Keyed("0", Str("v"), "null")>>}

ParseCalls ==
    {[op |-> "parseEditedContent", text |-> text, path |-> <<>>, rows |-> rows, via |-> ""] :
        text \in EditedContents, rows \in OriginalRowSets}

InitCalls ==
    /\ call \in UpdateCalls \cup NormalizeCalls \cup ParseCalls
    /\ ret = NotReturned
    /\ json = JSONstringify(DocAB)
    /\ contents = json
    /\ nodes = setGraph(json)
    /\ selectedNode = NoNode
    /\ isEditing = FALSE
    /\ editedContent = <<>>
    /\ normalizedContent = ComputeNormalizedContent(NoNode, json)
    /\ toast = ""
    /\ writes = 0

modalVars == <<json, contents, nodes, selectedNode, isEditing, editedContent,
               normalizedContent, toast, writes>>

callUpdate ==
    /\ call.op = "updateJsonWithNodeValue" /\ ~ret.done
    /\ LET r == updateJsonWithNodeValue(call.text, call.path, call.rows)
       IN  ret' = [done |-> TRUE, ok |-> r.ok, text |-> r.text, rows |-> <<>>]
    /\ UNCHANGED <<call, modalVars>>

\* normalizeNodeData(rows), whose text is then given to parseEditedContent
\* with the same rows (what handleEditClick and handleSave do with it)
callNormalize ==
    /\ call.op = "normalizeNodeData" /\ ~ret.done
    /\ call' = [call EXCEPT !.op = "parseEditedContent",
                            !.text = normalizeNodeData(call.rows),
                            !.via = "normalizeNodeData"]
    /\ UNCHANGED <<ret, modalVars>>

callParse ==
    /\ call.op = "parseEditedContent" /\ ~ret.done
    /\ LET r == parseEditedContent(call.text, call.rows)
       IN  ret' = [done |-> TRUE, ok |-> r.ok, text |-> <<>>, rows |-> r.rows]
    /\ UNCHANGED <<call, modalVars>>

NextCalls == callUpdate \/ callNormalize \/ callParse

SpecCalls == InitCalls /\ [][NextCalls]_vars

-----------------------------------------------------------------------------
(* Claims about the helpers *)

\* the member of a container a segment names: a key of an object, an index
\* within an array; undefined when there is none
DocGet(v, seg) ==
    IF v.k \in {"object", "array"} THEN Lookup(v.c, PropKey(seg)) ELSE Undefined

RECURSIVE DocResolve(_, _)
\* the value a path points to in a document, undefined when a segment is missing
DocResolve(v, path) ==
    IF Len(path) = 0 THEN v ELSE DocResolve(DocGet(v, path[1]), Tail(path))

RECURSIVE ReplaceAt(_, _, _)
\* the document with the value a path points to replaced, all else as it was
ReplaceAt(v, path, new) ==
    IF Len(path) = 0 THEN new
    ELSE LET at == KeyIndex(v.c, PropKey(path[1]))
         IN  [v EXCEPT !.c[at].val = ReplaceAt(v.c[at].val, Tail(path), new)]

UpdateDone == call.op = "updateJsonWithNodeValue" /\ ret.done /\ JSONparse(call.text).ok
CallDoc == JSONparse(call.text).v
RetDoc == JSONparse(ret.text).v
\* the value the call's path points to before and after the call
Target == DocResolve(CallDoc, call.path)
Result == DocResolve(RetDoc, call.path)

\* the coercion of a row's value by its type, as the document stores it:
\* null and "null" are null; a boolean is whether the value is true, "true"
\* or "1"; a number is Number(value), stored as null when it is NaN; any other
\* type leaves the value as it is
Coerced(value, type) ==
    IF value = Null \/ value = Str("null") THEN Null
    ELSE IF type = "boolean" THEN Bool(value \in {Bool(TRUE), Str("true"), Str("1")})
    ELSE IF type = "number" THEN (IF IsNaN(ToNumber(value)) THEN Null ELSE ToNumber(value))
    ELSE value

RowKeys(rows) == {rows[i].key : i \in {j \in 1..Len(rows) : KeyTruthy(rows[j])}}
Keys(v) == {v.c[i].key : i \in 1..Len(v.c)}
\* the last row of that key
LastRow(rows, key) ==
    rows[CHOOSE i \in 1..Len(rows) :
            /\ KeyTruthy(rows[i]) /\ rows[i].key = key
            /\ \A j \in 1..Len(rows) : (KeyTruthy(rows[j]) /\ rows[j].key = key) => j <= i]

\* the returned document has at the call's path an object with every key of
\* the old object that no keyed row has, unchanged, and with every keyed row's
\* key holding the row's coerced value; all else in the document is unchanged.
\* A row is keyed when its key is not empty, and the last row of a key counts
MergedAtPath ==
    /\ ret.ok
    /\ Result.k = "object"
    /\ Keys(Result) = Keys(Target) \cup RowKeys(call.rows)
    /\ \A key \in Keys(Target) \ RowKeys(call.rows) :
          Lookup(Result.c, key) = Lookup(Target.c, key)
    /\ \A key \in RowKeys(call.rows) :
          Lookup(Result.c, key)
             = Coerced(LastRow(call.rows, key).value,
                       LastRow(call.rows, key).type)
    /\ RetDoc = ReplaceAt(CallDoc, call.path, Result)

\* C1 (as claimed): for every newRows, when the path (empty or not) points to
\* an object O, the returned document has there an object with every key of O
\* that no row has, unchanged, and every keyed row with its coerced value;
\* all else in the document is unchanged.
C1_MergeForEveryRowSet ==
    (UpdateDone /\ Target.k = "object") => MergedAtPath

\* C1 (amended): the same for every newRows but a single row with no key (or
\* an empty key), which replaces the object instead.
C1_MergeKeepsOtherKeys ==
    (UpdateDone /\ Target.k = "object" /\ ~SingleValue(call.rows)) => MergedAtPath

\* C1 witness: below the root, an object with keys a and b was merged with
\* rows a and c: a is overwritten, b kept, c added
C1_Witness ==
    /\ UpdateDone /\ ret.ok
    /\ Len(call.path) > 0
    /\ Target.k = "object"
    /\ Keys(Target) = {"a", "b"}
    /\ RowKeys(call.rows) = {"a", "c"}
    /\ Keys(Result) = {"a", "b", "c"}
    /\ Lookup(Result.c, "a") /= Lookup(Target.c, "a")
    /\ Lookup(Result.c, "b") = Lookup(Target.c, "b")

IsScalar(v) == v.k \in {"null", "boolean", "number", "string"}
ScalarUpdate ==
    /\ UpdateDone
    /\ Len(call.path) > 0
    /\ IsScalar(Target)
    /\ Len(call.rows) = 1 /\ ~call.rows[1].hasKey

\* C2 (as claimed): a single row with no key and value V, of any type tag,
\* written at a non-empty path that points to a scalar, is read back as V.
C2_ScalarReadsBackAsWritten ==
    ScalarUpdate => (ret.ok /\ Result = call.rows[1].value)

\* C2 (amended): it is read back as the value coerced by the row's type; that
\* is V when V is not "null" and the type is neither boolean nor number.
C2_ScalarReadsBackCoerced ==
    ScalarUpdate =>
        /\ ret.ok
        /\ Result = Coerced(call.rows[1].value, call.rows[1].type)
        /\ (call.rows[1].value /= Str("null") /\ call.rows[1].type \notin {"boolean", "number"})
              => Result = call.rows[1].value
        /\ RetDoc = ReplaceAt(CallDoc, call.path, Result)

\* C2 witness: "1" written with the type boolean at a path of two segments
\* reads back as true
C2_Witness ==
    /\ ScalarUpdate /\ ret.ok
    /\ Len(call.path) = 2
    /\ call.rows[1].value = Str("1") /\ call.rows[1].type = "boolean"
    /\ Result = Bool(TRUE)

\* some segment names a key its container does not have, or an index past the
\* end of its array
SegmentMissing(doc, path) ==
    \E i \in 1..Len(path) :
        /\ DocResolve(doc, SubSeq(path, 1, i - 1)).k \in {"object", "array"}
        /\ DocResolve(doc, SubSeq(path, 1, i)).k = "undefined"

\* C4 (as claimed): with a non-empty path in which some segment does not
\* exist, updateJsonWithNodeValue fails and returns no document.
C4_MissingSegmentFails ==
    (UpdateDone /\ Len(call.path) > 0 /\ SegmentMissing(CallDoc, call.path)) => ~ret.ok

\* C8 (as claimed): keyed rows merged into a target that is an array, a
\* scalar or null, at the root or below it, give an object whose keys are
\* exactly the keys of the keyed rows.
C8_MergeIntoNonObjectStartsEmpty ==
    (/\ UpdateDone
     /\ ~SingleValue(call.rows)
     /\ Target.k \notin {"object", "undefined"})
    => (/\ ret.ok
        /\ Result.k = "object"
        /\ Keys(Result) = RowKeys(call.rows))

ParseDone == call.op = "parseEditedContent" /\ ret.done

\* the key/value pairs of rows
Pairs(rows) == {<<rows[i].hasKey, rows[i].key, rows[i].value>> : i \in 1..Len(rows)}

\* C5 (as claimed): for rows of scalar types, the empty row set and a single
\* row with no key included, parseEditedContent(normalizeNodeData(rows), rows)
\* succeeds and returns rows with the key/value pairs of the input rows.
C5_ParseInvertsNormalize ==
    (/\ ParseDone
     /\ call.via = "normalizeNodeData"
     /\ \A i \in 1..Len(call.rows) : call.rows[i].type \in ScalarTypes)
    => (ret.ok /\ Pairs(ret.rows) = Pairs(call.rows))

\* the object case of parseEditedContent: the original rows are not a single
\* row with no key
ObjectCase == ParseDone /\ ret.ok /\ ~(Len(call.rows) = 1 /\ ~KeyTruthy(call.rows[1]))

\* the tag the claim gives a key: the runtime shape of an array, an object, a
\* boolean or a number, else the declared type of the original row of that
\* key, else "string"
ExpectedTag(key, value, rowSet) ==
    CASE value.k = "array"   -> "array"
      [] value.k = "object"  -> "object"
      [] value.k = "boolean" -> "boolean"
      [] value.k = "number"  -> "number"
      [] OTHER -> IF \E r \in rowSet : r.hasKey /\ r.key = key
                  THEN (CHOOSE r \in rowSet : r.hasKey /\ r.key = key).type
                  ELSE "string"

Range(seq) == {seq[i] : i \in 1..Len(seq)}
Permutations(seq) ==
    {[i \in 1..Len(seq) |-> seq[f[i]]] :
        f \in {g \in [1..Len(seq) -> 1..Len(seq)] :
                  \A i, j \in 1..Len(seq) : g[i] = g[j] => i = j}}

\* C7: in the object case each key's tag is ExpectedTag of its parsed value
\* and of the original rows as a set, and permuting the original rows never
\* changes what parseEditedContent returns.
C7_TagsFromShapeThenRows ==
    ObjectCase =>
        /\ \A i \in 1..Len(ret.rows) :
              ret.rows[i].type
                 = ExpectedTag(ret.rows[i].key, ret.rows[i].value, Range(call.rows))
        /\ \A rows \in Permutations(call.rows) :
              /\ parseEditedContent(call.text, rows).ok
              /\ parseEditedContent(call.text, rows).rows = ret.rows

\* C7 witness: of two original rows in the order b, a, the number typed for a
\* key declared a string is tagged number, and the string typed for a key
\* declared a boolean keeps the declared tag
C7_Witness ==
    /\ ObjectCase
    /\ Len(call.rows) = 2 /\ call.rows[1].key = "b"
    /\ \E i, j \in 1..Len(ret.rows) :
          /\ ret.rows[i].value.k = "number" /\ ret.rows[i].type = "number"
          /\ FindRow(call.rows, ret.rows[i].key).type = "string"
          /\ ret.rows[j].value.k = "string" /\ ret.rows[j].type = "boolean"

-----------------------------------------------------------------------------
(* Claims about the modal *)

SuccessToast == "Node value updated!"

\* C3: a handleSave in which parseEditedContent or updateJsonWithNodeValue
\* fails calls none of setJson, setContents, setGraph and setSelectedNode: the
\* document, the file mirror, the graph and the selected node stay as they
\* were, an error toast is shown, and the modal stays in edit mode with the
\* edited text kept.
C3_FailedSaveChangesNothing ==
    [][(handleSave /\ ~SaveSucceeds) =>
          /\ json' = json
          /\ contents' = contents
          /\ nodes' = nodes
          /\ selectedNode' = selectedNode
          /\ normalizedContent' = normalizedContent
          /\ toast' \notin {"", SuccessToast}
          /\ isEditing'
          /\ editedContent' = editedContent]_vars

\* C3 witness: a save failed inside updateJsonWithNodeValue (the path of the
\* selected node no longer leads anywhere), after a document write, and the
\* modal still edits the text the user typed
C3_Witness ==
    /\ toast = "TypeError"
    /\ isEditing
    /\ writes > 0
    /\ selectedNode.sel
    /\ parseEditedContent(editedContent, selectedNode.text).ok
    /\ ~SaveUpdate.ok

\* C6 (as claimed): a save on the root of {"a":1,"b":2} with the edited text 5
\* leaves the document store holding 5.
C6_RootSaveOfFiveStoresFive ==
    [][(/\ handleSave
        /\ json = JSONstringify(DocAB)
        /\ selectedNode \in nodes
        /\ selectedNode.path = <<>>
        /\ editedContent = JSONstringify(Num(5)))
       => json' = JSONstringify(Num(5))]_vars

\* C9 (as claimed): after a successful save the node of the rebuilt graph
\* whose serialized path is that of the edited node is selected; if there is
\* none the save still reports success and leaves edit mode, and no node is
\* left selected.
C9_ReselectOrNoneSelected ==
    [][(handleSave /\ SaveSucceeds) =>
          /\ toast' = SuccessToast
          /\ ~isEditing'
          /\ IF Matched(nodes', selectedNode) /= {}
             THEN selectedNode' \in Matched(nodes', selectedNode)
             ELSE selectedNode' = NoNode]_vars

\* C10: while a node is selected and its path resolves to a defined value in
\* the current document, the content the modal shows is the serialization of
\* that value; the text of the node's rows is shown only when the path does
\* not resolve or the document does not parse.
C10_ContentIsLiveValue ==
    (selectedNode.sel /\ JSONparse(json).ok
        /\ Resolve(JSONparse(json).v, selectedNode.path).k /= "undefined")
    => normalizedContent = JSONstringify(Resolve(JSONparse(json).v, selectedNode.path))

\* C10 witness: a node below the root is selected after a save changed the
\* value at its path, and the modal shows the new value
C10_Witness ==
    /\ selectedNode.sel
    /\ selectedNode.path /= <<>>
    /\ toast = SuccessToast
    /\ json \notin InitDocs
    /\ normalizedContent = JSONstringify(Resolve(JSONparse(json).v, selectedNode.path))
    /\ normalizedContent = editedContent

=============================================================================
